---- MODULE Spec2Model ----
(***************************************************************************)
(* Model of the cursor engine of src/cursor/abstract_cursor.ts             *)
(* (first implementation in the file, lines 1-651): the AbstractCursor     *)
(* state machine, its session ownership protocol and its batch buffer.     *)
(*                                                                         *)
(* One step of the model is one run-to-completion turn of the event loop:  *)
(* either the caller invokes a public method (which runs synchronously     *)
(* until it delivers its callback or hands a command to the server), or    *)
(* the server answers a command in flight (and the callback chain runs     *)
(* until it delivers or hands the next command to the server).             *)
(* session.endSession is synchronous for a session without a transaction.  *)
(***************************************************************************)
EXTENDS Integers, Sequences, FiniteSets, TLC

\* ---- bounds of the exploration ------------------------------------------
MaxCalls == 4       \* public method calls the caller makes on the cursor
MaxDocs == 3        \* documents in the server's result set
MaxBatch == 3       \* documents per server batch
MaxCount == 2       \* saturation of the invocation counters (2 = "twice or more")
MaxMaps == 2        \* map() calls the caller makes on the cursor
MaxParams == 2      \* query parameters of the uri given to MongoOptions

\* ---- values -------------------------------------------------------------
\* A cursor id is undefined, or a Long. `=== Long.ZERO` is reference
\* equality, so a Long remembers whether it is the Long.ZERO singleton or an
\* object built from a server response (Long.fromNumber / BSON decoding
\* always build a new object, also for the value 0).
IdUndefined == [ref |-> "undefined", v |-> 0]
LongZERO == [ref |-> "Long.ZERO", v |-> 0]
LiveId == 42
ResponseLong(n) == [ref |-> "new", v |-> n]

isZero(id) == id.v = 0

\* end-of-results values a callback can carry instead of a document
Null == 0
Undefined == 0 - 1

\* sessions: the session's declared owner is a field of the session
NoSession == [owner |-> "none", n |-> 0]
CallerSession == [owner |-> "caller", n |-> 0]
startSession(n) == [owner |-> "cursor", n |-> n]
\* the session withSession starts, `{ owner: Symbol() }`
ownSession(n) == [owner |-> "withSession", n |-> n]
Sessions ==
  {CallerSession} \cup {startSession(n) : n \in 1..MaxCalls}
                  \cup {ownSession(n) : n \in 1..MaxCalls}

\* the functions a caller passes to map(): two pure functions on documents
\* that do not commute, f(d) = d + 10 and g(d) = 2 * d
Transforms == {"f", "g"}
ApplyOne(name, doc) == IF name = "f" THEN doc + 10 ELSE 2 * doc

\* cursor[kTransform] is the closure map() has built: the mapped functions
\* applied first to last; <<>> is "no transform"
RECURSIVE Transform(_, _)
Transform(t, doc) ==
  IF t = <<>> THEN doc ELSE Transform(Tail(t), ApplyOne(Head(t), doc))

MapAll(t, docs) == [i \in 1..Len(docs) |-> Transform(t, docs[i])]

Min(a, b) == IF a < b THEN a ELSE b
Bump(n) == Min(n + 1, MaxCount)
\* the documents numbered a..b in server order
Docs(a, b) == [i \in 1..(b - a + 1) |-> a + i - 1]

VARIABLES
  cursor,       \* the AbstractCursor object's fields
  optSession,   \* options.session given to the constructor (or NoSession)
  sessionSupport, \* topology.hasSessionSupport()
  ended,        \* per session: number of endSession invocations (saturating)
  started,      \* number of sessions created by topology.startSession
  issued,       \* commands handed to the server: init, getMore, killCursors
  server,       \* the server's side: documents returned so far, the command
                \* whose response carried the zero cursor id, the servers and
                \* errors there are, and the error of the last response
  call,         \* the iteration call in progress (next/hasNext/toArray/forEach)
  kills,        \* killCursors commands in flight, each with close()'s session
  closes,       \* close() calls made, close() callbacks delivered, kills that
                \* failed, errors handed to close() callbacks, and 'close'
                \* events emitted
  result,       \* what the last completed iteration call delivered
  delivered,    \* every document handed to the caller so far, in order
  calls,        \* public method calls made so far
  sent,         \* the getMore and killCursors commands sent, with their target
  stream,       \* the AbstractCursorStream made by cursor.stream(), if any
  client,       \* the MongoClient: its options, topology and cache of Db objects
  mongoOptions  \* a MongoOptions under construction: the query parameters of
                \* the uri, the options object, and what the constructor made

vars == <<cursor, optSession, sessionSupport, ended, started, issued, server,
          call, kills, closes, result, delivered, calls, sent, stream, client,
          mongoOptions>>

\* ---- JavaScript values handed to the configuration methods ---------------
Num(n) == [type |-> "number", v |-> n]
Str(s) == [type |-> "string", v |-> s]
Bool(b) == [type |-> "boolean", v |-> b]
Undef == [type |-> "undefined", v |-> ""]
Obj == [type |-> "object", v |-> "{}"]
ReadPref(mode) == [type |-> "ReadPreference", v |-> mode]

typeof(x) == IF x.type = "ReadPreference" THEN "object" ELSE x.type

\* `if (x)`
Truthy(x) == x \notin {Undef, Bool("false"), Num("0"), Str("")}

CURSOR_FLAGS ==
  {"tailable", "oplogReplay", "noCursorTimeout", "awaitData", "exhaust", "partial"}

\* the keys of this[kOptions]: those the constructor fills and the flags
OptionKeys == {"batchSize", "comment", "maxTimeMS", "readPreference"} \cup CURSOR_FLAGS

\* the keys of FindCursor.options that sort / limit / skip read and write
FindKeys == {"tailable", "sort", "limit", "skip"}

\* find options: none, or the caller's { tailable: true }
NoFindOptions == [k \in FindKeys |-> Undef]
TailableOptions == [NoFindOptions EXCEPT !["tailable"] = Bool("true")]

\* AbstractCursor constructor
Constructor(session) ==
  [kId |-> IdUndefined,
   kDocuments |-> <<>>,
   kServer |-> "undefined",
   kNamespace |-> "undefined",
   kSession |-> session,
   kTransform |-> <<>>,
   kOptions |-> [k \in OptionKeys |-> IF k = "readPreference"
                                      THEN ReadPref("primary") ELSE Undef],
   closed |-> FALSE]

\* FindCursor constructor: super(topology, options); this.options = options
FindCursor(session, options) == [options |-> options] @@ Constructor(session)

\* no iteration call in progress / nothing delivered yet
NoCall == [op |-> "none", pending |-> "none", session |-> NoSession,
           docs |-> <<>>, expect |-> <<>>, stopDoc |-> 0, fresh |-> FALSE,
           transform |-> <<>>]
NoResult == [op |-> "none", err |-> "none", value |-> Undefined, has |-> FALSE,
             docs |-> <<>>, stopped |-> FALSE, expect |-> <<>>, fresh |-> FALSE,
             args |-> <<>>]
NoOut == [kind |-> "none", err |-> "none", value |-> Undefined, session |-> NoSession]

\* the servers an operation may be executed on
Topology == {"server"}
Replicas == {"server", "other"}

\* the errors a command can fail with
NetworkFaults == {"network"}
ShutdownFaults == {"network", "server is closed"}

\* no stream yet; of a stream: the transform option, what _read pushed
\* downstream, the ERROR events emitted, the END events, the once(END)
\* listeners registered, the FINISH events, and whether destroy() was called
NoStream ==
  [made |-> FALSE, transform |-> FALSE, pushed |-> <<>>, errors |-> <<>>,
   ends |-> 0, endHooks |-> 0, finished |-> 0, destroyed |-> FALSE]

\* ---- MongoClient ----------------------------------------------------------
\* database names a caller passes to db(); "" is a name not given
DbNames == {"", "a", "b"}

\* no Db object
NoDb == 0

\* the options given to the MongoClient constructor that db() reads
NoClientOptions == [dbName |-> "", returnNonCachedInstance |-> Undef]

\* MongoClient constructor: `dbCache: new Map()`; Db objects are numbered in
\* the order they are constructed, and `returned` lists the db() calls that
\* returned one: the name asked for, the option passed and the object
MongoClient(options, topology) ==
  [options |-> options, topology |-> topology,
   dbCache |-> [name \in DbNames |-> NoDb], dbs |-> 0, returned |-> <<>>]

\* ---- MongoOptions ----------------------------------------------------------
\* the fields of a MongoOptions object that are modelled
OptionFields ==
  {"appName", "authMechanism", "dbName", "socketTimeoutMS", "readPreference"}

\* `new MongoOptions(uri, options)` before the constructor has run: the query
\* parameters of the uri and the entries of the options object, each a
\* sequence of [key, value]
Arguments(uri, options) ==
  [uri |-> uri, options |-> options, made |-> FALSE, err |-> "none",
   this |-> [f \in OptionFields |-> Undef]]

NoArguments == Arguments(<<>>, <<>>)

InitAll(pool, faults, findOptions, clients, arguments) ==
  /\ client \in clients
  /\ mongoOptions \in arguments
  /\ optSession \in {NoSession, CallerSession}
  /\ sessionSupport \in BOOLEAN
  /\ cursor \in {FindCursor(optSession, options) : options \in findOptions}
  /\ ended = [s \in Sessions |-> 0]
  /\ started = 0
  /\ issued = [init |-> 0, getMore |-> 0, kill |-> 0]
  /\ server = [served |-> 0, zeroIn |-> "none", pool |-> pool, faults |-> faults,
               fault |-> "none"]
  /\ call = NoCall
  /\ kills = <<>>
  /\ closes = [calls |-> 0, callbacks |-> 0, failed |-> 0, reported |-> 0,
                 emitted |-> 0]
  /\ result = NoResult
  /\ delivered = <<>>
  /\ calls = 0
  /\ sent = {}
  /\ stream = NoStream

InitWith(pool, faults, findOptions) ==
  InitAll(pool, faults, findOptions, {MongoClient(NoClientOptions, TRUE)},
          {NoArguments})

InitOf(pool, faults) == InitWith(pool, faults, {NoFindOptions})

InitIn(pool) == InitOf(pool, NetworkFaults)

Init == InitIn(Topology)

\* ---- the cursor's code, as functions of a "world" record -----------------
\* A world bundles everything one run-to-completion turn can change; `out`
\* is what the internal next() did last: called back (kind "result") or
\* handed a command to the server (kind "init" / "getMore").
World ==
  [c |-> cursor, ended |-> ended, started |-> started, issued |-> issued,
   call |-> call, result |-> result, delivered |-> delivered, sent |-> sent,
   stream |-> stream, out |-> NoOut]

Commit(w) ==
  /\ cursor' = w.c
  /\ ended' = w.ended
  /\ started' = w.started
  /\ issued' = w.issued
  /\ call' = w.call
  /\ result' = w.result
  /\ delivered' = w.delivered
  /\ sent' = w.sent
  /\ stream' = w.stream

\* (the owner check forgotten: any session is ended)
OwnedByAnyone(session) == session # NoSession

\* `session && session.owner === cursor`
OwnedByCursor(session) == session.owner = "cursor"

\* session.endSession(cb): counted per session
endSession(w, session) == [w EXCEPT !.ended[session] = Bump(@)]

\* (the session is left open)
EndIfOwned_Never(w, session) == w

\* if (session && session.owner === cursor) session.endSession(...)
EndIfOwned(w, session) ==
  IF OwnedByCursor(session) THEN endSession(w, session) ELSE w

\* (the document is read but left in the buffer)
nextDocument_NoShift(c) ==
  IF Len(c.kDocuments) = 0
  THEN [c |-> c, value |-> Undefined]
  ELSE [c |-> c, value |-> Transform(c.kTransform, Head(c.kDocuments))]

\* nextDocument(cursor): undefined on an empty buffer, else shift() and
\* the transform
\* (documents are objects, hence truthy: the `return null` arm is dead)
nextDocument(c) ==
  IF Len(c.kDocuments) = 0
  THEN [c |-> c, value |-> Undefined]
  ELSE [c |-> [c EXCEPT !.kDocuments = Tail(@)],
        value |-> Transform(c.kTransform, Head(c.kDocuments))]

\* (the error is not passed on)
Reply_NoError(w, err) ==
  LET nd == nextDocument(w.c)
  IN [w EXCEPT !.c = nd.c,
               !.out = [NoOut EXCEPT !.kind = "result", !.value = nd.value]]

\* callback(err, nextDocument(cursor))
Reply(w, err) ==
  LET nd == nextDocument(w.c)
  IN [w EXCEPT !.c = nd.c,
               !.out = [NoOut EXCEPT !.kind = "result", !.err = err, !.value = nd.value]]

\* (the zero id not recognised as the end)
NothingToFetch_NsOnly(c) == c.kNamespace = "undefined"

\* next(): `cursorId.isZero() || cursorNs == null` - nothing left to fetch
NothingToFetch(c) == isZero(c.kId) \/ c.kNamespace = "undefined"

\* (the command goes to a server of the topology, not to the pinned one)
PinnedServer_Unpinned(c) == "other"

\* `const server = cursor[kServer]`: the server commands are sent through
PinnedServer(c) == c.kServer

\* a command as it goes out: server.getMore(cursorNs, cursorId, ...),
\* server.killCursors(cursorNs, [cursorId], ...)
Command(name, c) ==
  [cmd |-> name, server |-> PinnedServer(c), ns |-> c.kNamespace, id |-> c.kId.v]

\* function next(cursor, callback): the synchronous part
next(w) ==
  LET c == w.c IN
  IF c.kId = IdUndefined THEN
    LET create == c.kSession = NoSession /\ sessionSupport
        session == IF c.kSession # NoSession THEN c.kSession
                   ELSE IF sessionSupport THEN startSession(w.started + 1)
                   ELSE NoSession
    IN [w EXCEPT !.started = IF create THEN @ + 1 ELSE @,
                 !.issued.init = @ + 1,
                 !.out = [NoOut EXCEPT !.kind = "init", !.session = session]]
  ELSE IF Len(c.kDocuments) > 0 THEN Reply(w, "none")
  ELSE IF NothingToFetch(c) THEN
    [EndIfOwned(w, c.kSession) EXCEPT
       !.out = [NoOut EXCEPT !.kind = "result", !.value = Null]]
  ELSE IF c.kServer = "undefined" THEN
    [w EXCEPT !.out = [NoOut EXCEPT !.kind = "result", !.err = "no pinned server"]]
  ELSE [w EXCEPT !.issued.getMore = @ + 1,
                 !.sent = @ \cup {Command("getMore", c)},
                 !.out = [NoOut EXCEPT !.kind = "getMore"]]

\* (the session of a failed attempt stays attached to the cursor)
initialized_KeepSession(w, session, resp, selected) ==
  LET w1 == IF resp.ok
            THEN [w EXCEPT !.c.kServer = selected,
                           !.c.kSession = session,
                           !.c.kId = ResponseLong(resp.id),
                           !.c.kNamespace = "ns",
                           !.c.kDocuments = resp.batch]
            ELSE [w EXCEPT !.c.kSession = session]
      err == resp.err
  IN IF err # "none" \/ (w1.c.kId # IdUndefined /\ isZero(w1.c.kId))
     THEN Reply(EndIfOwned(w1, session), err)
     ELSE Reply(w1, err)

\* (the selected server is not recorded)
initialized_Unpinned(w, session, resp, selected) ==
  LET w1 == IF resp.ok
            THEN [w EXCEPT !.c.kSession = session,
                           !.c.kId = ResponseLong(resp.id),
                           !.c.kNamespace = "ns",
                           !.c.kDocuments = resp.batch]
            ELSE w
      err == resp.err
  IN IF err # "none" \/ (w1.c.kId # IdUndefined /\ isZero(w1.c.kId))
     THEN Reply(EndIfOwned(w1, session), err)
     ELSE Reply(w1, err)

\* the callback next() passes to cursor._initialize
initialized(w, session, resp, selected) ==
  LET w1 == IF resp.ok
            THEN [w EXCEPT !.c.kServer = selected,
                           !.c.kSession = session,
                           !.c.kId = ResponseLong(resp.id),
                           !.c.kNamespace = "ns",
                           !.c.kDocuments = resp.batch]
            ELSE w
      err == resp.err
  IN IF err # "none" \/ (w1.c.kId # IdUndefined /\ isZero(w1.c.kId))
     THEN Reply(EndIfOwned(w1, session), err)
     ELSE Reply(w1, err)

\* the callback next() passes to server.getMore
gotMore(w, resp) ==
  LET w1 == IF resp.ok
            THEN [w EXCEPT !.c.kDocuments = resp.batch,
                           !.c.kId = ResponseLong(resp.id)]
            ELSE w
      err == resp.err
  IN IF err # "none" \/ (w1.c.kId # IdUndefined /\ isZero(w1.c.kId))
     THEN Reply(EndIfOwned(w1, w1.c.kSession), err)
     ELSE Reply(w1, err)

\* ---- the public iteration methods ----------------------------------------
\* (the callback is not invoked)
Done_Never(w, r) == w

\* done(err, value): the call's callback fires and the call is over
Done(w, r) ==
  [w EXCEPT !.result = [r EXCEPT !.op = w.call.op, !.expect = w.call.expect,
                                 !.fresh = w.call.fresh],
            !.call = NoCall]

IsDoc(value) == value > 0

\* the iterator passed to forEach returns false on the document stopDoc
Visitor(stopDoc, doc) == doc # stopDoc

\* the documents of s up to and including the first one the visitor rejects
Visited(s, stopDoc) ==
  IF \E i \in 1..Len(s) : ~Visitor(stopDoc, s[i])
  THEN SubSeq(s, 1, CHOOSE i \in 1..Len(s) :
                      /\ ~Visitor(stopDoc, s[i])
                      /\ \A j \in 1..(i - 1) : Visitor(stopDoc, s[j]))
  ELSE s

\* what each method does with the outcome of the internal next():
\* AbstractCursor.next passes `done` itself
nextDone(w) ==
  Done([w EXCEPT !.delivered = IF w.out.err = "none" /\ IsDoc(w.out.value)
                               THEN Append(@, w.out.value) ELSE @],
       [NoResult EXCEPT !.err = w.out.err, !.value = w.out.value])

\* (the fetched document is not put back)
hasNextDone_NoUnshift(w) ==
  IF w.out.err # "none" THEN Done(w, [NoResult EXCEPT !.err = w.out.err])
  ELSE Done(w, [NoResult EXCEPT !.has = IsDoc(w.out.value)])

\* AbstractCursor.hasNext: a fetched document is put back with unshift
hasNextDone(w) ==
  IF w.out.err # "none" THEN Done(w, [NoResult EXCEPT !.err = w.out.err])
  ELSE IF IsDoc(w.out.value)
  THEN Done([w EXCEPT !.c.kDocuments = <<w.out.value>> \o @],
            [NoResult EXCEPT !.has = TRUE])
  ELSE Done(w, [NoResult EXCEPT !.has = FALSE])

\* the function a caller passes as the stream's transform option
StreamTransform(doc) == doc + 100

\* this.push(chunk)
push(st, chunk) == [st EXCEPT !.pushed = Append(@, chunk)]

\* _read's callback without an error: a result that is not null or
\* undefined goes through the transform option when there is one; any other
\* is pushed as it is, and a null registers the once(END) listener that
\* closes the cursor
forward(st, value) ==
  IF st.transform /\ value # Null /\ value # Undefined
  THEN push(st, StreamTransform(value))
  ELSE [push(st, value) EXCEPT !.endHooks = IF value = Null THEN @ + 1 ELSE @]

\* AbstractCursorStream._read: the callback it passes to next(); an error
\* is emitted as ERROR, followed by END
readDone(w) ==
  IF w.out.err # "none"
  THEN Done([w EXCEPT !.stream.errors = Append(@, w.out.err),
                      !.stream.ends = @ + 1],
            [NoResult EXCEPT !.err = w.out.err])
  ELSE Done([w EXCEPT !.stream = forward(@, w.out.value),
                      !.delivered = IF IsDoc(w.out.value)
                                    THEN Append(@, w.out.value) ELSE @],
            [NoResult EXCEPT !.value = w.out.value])

\* One turn of the event loop, from the outcome of the internal next() on:
\* suspend on a command in flight, or run the method's callback, which for
\* toArray and forEach calls fetchDocs() -> next() again.
RECURSIVE Run(_)
Run(w) ==
  IF w.out.kind # "result"
  THEN [w EXCEPT !.call.pending = w.out.kind, !.call.session = w.out.session]
  ELSE CASE w.call.op = "next" -> nextDone(w)
         [] w.call.op = "hasNext" -> hasNextDone(w)
         [] w.call.op = "read" -> readDone(w)
         [] w.call.op = "toArray" ->
              IF w.out.err # "none"
              THEN Done(w, [NoResult EXCEPT !.err = w.out.err])
              ELSE IF ~IsDoc(w.out.value)
              THEN Done([w EXCEPT !.delivered = @ \o w.call.docs],
                        [NoResult EXCEPT !.docs = w.call.docs])
              ELSE LET internalDocs == MapAll(w.call.transform, w.c.kDocuments)
                       docs == Append(w.call.docs, w.out.value) \o internalDocs
                   IN Run(next([w EXCEPT !.c.kDocuments = <<>>,
                                         !.call.docs = docs,
                                         !.call.pending = "none"]))
         [] w.call.op = "forEach" ->
              IF w.out.err # "none" \/ ~IsDoc(w.out.value)
              THEN Done(w, [NoResult EXCEPT !.err = w.out.err])
              ELSE IF ~Visitor(w.call.stopDoc, w.out.value)
              THEN Done([w EXCEPT !.delivered = Append(@, w.out.value)],
                        [NoResult EXCEPT !.stopped = TRUE])
              ELSE LET internalDocs == MapAll(w.call.transform, w.c.kDocuments)
                       seen == Visited(internalDocs, w.call.stopDoc)
                       w1 == [w EXCEPT !.c.kDocuments = <<>>,
                                       !.call.pending = "none",
                                       !.delivered = Append(@, w.out.value) \o seen]
                   IN IF \E i \in 1..Len(internalDocs) :
                           ~Visitor(w.call.stopDoc, internalDocs[i])
                      THEN Done(w1, [NoResult EXCEPT !.stopped = TRUE])
                      ELSE Run(next(w1))

\* a public iteration method is entered
Enter(op, stopDoc) ==
  [World EXCEPT !.call = [NoCall EXCEPT !.op = op, !.stopDoc = stopDoc,
                                       !.expect = cursor.kDocuments,
                                       !.transform = cursor.kTransform,
                                       !.fresh = cursor.kId = IdUndefined]]

CanCall == calls < MaxCalls
CanIterate == CanCall /\ call.op = "none"

\* cursor.next()
NextCall ==
  /\ CanIterate
  /\ calls' = calls + 1
  /\ IF cursor.kId = LongZERO
     THEN Commit(Done(Enter("next", 0), [NoResult EXCEPT !.err = "Cursor is exhausted"]))
     ELSE Commit(Run(next(Enter("next", 0))))
  /\ UNCHANGED <<mongoOptions, client, optSession, sessionSupport, server, kills, closes>>

\* cursor.hasNext()
HasNextCall ==
  /\ CanIterate
  /\ calls' = calls + 1
  /\ IF cursor.kId = LongZERO
     THEN Commit(Done(Enter("hasNext", 0), [NoResult EXCEPT !.has = FALSE]))
     ELSE IF Len(cursor.kDocuments) > 0
     THEN Commit(Done(Enter("hasNext", 0), [NoResult EXCEPT !.has = TRUE]))
     ELSE Commit(Run(next(Enter("hasNext", 0))))
  /\ UNCHANGED <<mongoOptions, client, optSession, sessionSupport, server, kills, closes>>

\* cursor.toArray()
ToArrayCall ==
  /\ CanIterate
  /\ calls' = calls + 1
  /\ Commit(Run(next(Enter("toArray", 0))))
  /\ UNCHANGED <<mongoOptions, client, optSession, sessionSupport, server, kills, closes>>

\* cursor.forEach(iterator)
ForEachCall ==
  /\ CanIterate
  /\ calls' = calls + 1
  /\ \E stopDoc \in 0..MaxDocs : Commit(Run(next(Enter("forEach", stopDoc))))
  /\ UNCHANGED <<mongoOptions, client, optSession, sessionSupport, server, kills, closes>>

\* map(transform): the new function is composed after the existing one,
\* `doc => transform(oldTransform(doc))`
map(c, name) == [c EXCEPT !.kTransform = Append(@, name)]

\* cursor.map(transform)
MapCall ==
  /\ CanCall
  /\ Len(cursor.kTransform) < MaxMaps
  /\ calls' = calls + 1
  /\ \E name \in Transforms : cursor' = map(cursor, name)
  /\ UNCHANGED <<mongoOptions, client, optSession, sessionSupport, ended, started, issued, server,
                 call, kills, closes, result, delivered, sent, stream>>

\* ---- the server ----------------------------------------------------------
\* a response: an error, or a batch of the next documents with a cursor id
Responses ==
  {[ok |-> FALSE, id |-> 0, batch |-> <<>>, err |-> e] : e \in server.faults} \cup
  {[ok |-> TRUE, id |-> id, batch |-> Docs(server.served + 1, server.served + k),
    err |-> "none"] :
     id \in {0, LiveId}, k \in 0..Min(MaxBatch, MaxDocs - server.served)}

Received(w, resp) == [w EXCEPT !.call.expect = @ \o resp.batch]

Answered(command, resp) ==
  server' = [server EXCEPT
               !.served = @ + Len(resp.batch),
               !.zeroIn = IF resp.ok /\ resp.id = 0 THEN command ELSE @,
               !.fault = resp.err]

\* the initial command (find / aggregate) is answered
InitResponse ==
  /\ call.pending = "init"
  /\ \E resp \in Responses, selected \in server.pool :
       /\ Answered("init", resp)
       /\ Commit(Run(initialized(Received(World, resp), call.session, resp,
                                 selected)))
  /\ UNCHANGED <<mongoOptions, client, optSession, sessionSupport, kills, closes, calls>>

\* a getMore is answered
GetMoreResponse ==
  /\ call.pending = "getMore"
  /\ \E resp \in Responses :
       /\ Answered("getMore", resp)
       /\ Commit(Run(gotMore(Received(World, resp), resp)))
  /\ UNCHANGED <<mongoOptions, client, optSession, sessionSupport, kills, closes, calls>>

\* ---- close ----------------------------------------------------------------
\* (close() always finishes locally)
NothingToKill_Always(c) == TRUE

\* (only a zero id stops close() from sending the kill)
NothingToKill_ZeroOnly(c) == c.kId # IdUndefined /\ isZero(c.kId)

\* close(): `cursorId == null || server == null || cursorId.isZero() ||
\* cursorNs == null` - nothing to kill on the server
NothingToKill(c) ==
  \/ c.kId = IdUndefined
  \/ c.kServer = "undefined"
  \/ isZero(c.kId)
  \/ c.kNamespace = "undefined"

RemoveAt(s, i) == SubSeq(s, 1, i - 1) \o SubSeq(s, i + 1, Len(s))

\* (close() leaves the flag alone)
MarkClosed_Not(c) == c

\* `this.closed = true`, the first statement of close()
MarkClosed(c) == [c EXCEPT !.closed = TRUE]

\* close(): sets closed, then either finishes locally - the id becomes
\* Long.ZERO, 'close' is emitted and the callback fires - or sends
\* killCursors to the pinned server with the cursor's session
close ==
  LET c == MarkClosed(cursor) IN
  IF NothingToKill(c)
  THEN /\ cursor' = [c EXCEPT !.kId = LongZERO]
       /\ closes' = [closes EXCEPT !.calls = @ + 1, !.callbacks = @ + 1,
                                   !.emitted = @ + 1]
       /\ UNCHANGED <<issued, kills, sent>>
  ELSE /\ cursor' = c
       /\ issued' = [issued EXCEPT !.kill = @ + 1]
       /\ sent' = sent \cup {Command("killCursors", c)}
       /\ kills' = Append(kills, c.kSession)
       /\ closes' = [closes EXCEPT !.calls = @ + 1]

\* cursor.close() called by the user
CloseCall ==
  /\ CanCall
  /\ calls' = calls + 1
  /\ close
  /\ UNCHANGED <<mongoOptions, client, optSession, sessionSupport, ended, started, server, call,
                 result, delivered, stream>>

\* a killCursors is answered, with success or with an error (its callback
\* takes no arguments: the outcome of the command is not looked at); the
\* owned session is ended, then 'close' is emitted and close()'s callback
\* fires through done(), which is given no error
KillResponse ==
  /\ \E i \in 1..Len(kills) :
       /\ ended' = IF OwnedByCursor(kills[i])
                   THEN [ended EXCEPT ![kills[i]] = Bump(@)]
                   ELSE ended
       /\ kills' = RemoveAt(kills, i)
  /\ \E ok \in BOOLEAN :
       closes' = [closes EXCEPT !.callbacks = @ + 1,
                                !.emitted = @ + 1,
                                !.failed = IF ok THEN @ ELSE Bump(@)]
  /\ UNCHANGED <<mongoOptions, client, cursor, optSession, sessionSupport, started, issued, server,
                 call, result, delivered, calls, sent, stream>>

\* ---- configuration ------------------------------------------------------
\* a method returns the cursor (this); or it throws and `err` is the message
Ok(c) == [c |-> c, err |-> "none"]
Throw(c, message) == [c |-> c, err |-> message]

\* formatSort(sort, direction): the sort in its normalised form
formatSort(value) == [type |-> "sort", v |-> value.v]

\* ReadPreference.fromString(mode)
fromString(value) == ReadPref(value.v)

\* (any value passes for a number)
IsNumber_Any(value) == TRUE

\* typeof value === 'number'
IsNumber(value) == typeof(value) = "number"

\* FindCursor.sort
sort(c, value) ==
  IF Truthy(c.options["tailable"])
  THEN Throw(c, "Tailable cursor does not support sorting")
  ELSE Ok([c EXCEPT !.options["sort"] = formatSort(value)])

\* FindCursor.limit
limit(c, value) ==
  IF Truthy(c.options["tailable"])
  THEN Throw(c, "Tailable cursor does not support limit")
  ELSE IF ~IsNumber(value) THEN Throw(c, "limit requires an integer")
  ELSE Ok([c EXCEPT !.options["limit"] = value])

\* FindCursor.skip
skip(c, value) ==
  IF Truthy(c.options["tailable"])
  THEN Throw(c, "Tailable cursor does not support skip")
  ELSE IF ~IsNumber(value) THEN Throw(c, "skip requires an integer")
  ELSE Ok([c EXCEPT !.options["skip"] = value])

\* AbstractCursor.addCursorFlag
addCursorFlag(c, flag, value) ==
  IF flag.v \notin CURSOR_FLAGS THEN Throw(c, "flag is not one of CURSOR_FLAGS")
  ELSE IF typeof(value) # "boolean" THEN Throw(c, "flag must be a boolean value")
  ELSE Ok([c EXCEPT !.kOptions[flag.v] = value])

\* AbstractCursor.setReadPreference
setReadPreference(c, readPreference) ==
  IF readPreference.type = "ReadPreference"
  THEN Ok([c EXCEPT !.kOptions["readPreference"] = readPreference])
  ELSE IF typeof(readPreference) = "string"
  THEN Ok([c EXCEPT !.kOptions["readPreference"] = fromString(readPreference)])
  ELSE Throw(c, "Invalid read preference")

\* AbstractCursor.maxTimeMS
maxTimeMS(c, value) ==
  IF ~IsNumber(value) THEN Throw(c, "maxTimeMS must be a number")
  ELSE Ok([c EXCEPT !.kOptions["maxTimeMS"] = value])

\* AbstractCursor.batchSize
batchSize(c, value) ==
  IF ~IsNumber(value) THEN Throw(c, "batchSize requires an integer")
  ELSE Ok([c EXCEPT !.kOptions["batchSize"] = value])

\* the values a caller passes
ArgValues == {Num("10"), Str("secondary"), Bool("true"), Obj, ReadPref("nearest")}
FlagArgs == {Str("tailable"), Str("bogus")}

\* a configuration method is called with `args` and returns or throws
Configure(op, outcome, args) ==
  /\ calls' = calls + 1
  /\ cursor' = outcome.c
  /\ result' = [NoResult EXCEPT !.op = op, !.err = outcome.err, !.args = args]
  /\ UNCHANGED <<mongoOptions, client, optSession, sessionSupport, ended, started, issued, server,
                 call, kills, closes, delivered, sent, stream>>

SortCall ==
  /\ CanCall
  /\ \E value \in ArgValues : Configure("sort", sort(cursor, value), <<value>>)

LimitCall ==
  /\ CanCall
  /\ \E value \in ArgValues : Configure("limit", limit(cursor, value), <<value>>)

SkipCall ==
  /\ CanCall
  /\ \E value \in ArgValues : Configure("skip", skip(cursor, value), <<value>>)

AddCursorFlagCall ==
  /\ CanCall
  /\ \E flag \in FlagArgs, value \in ArgValues :
       Configure("addCursorFlag", addCursorFlag(cursor, flag, value),
                 <<flag, value>>)

SetReadPreferenceCall ==
  /\ CanCall
  /\ \E value \in ArgValues :
       Configure("setReadPreference", setReadPreference(cursor, value), <<value>>)

MaxTimeMSCall ==
  /\ CanCall
  /\ \E value \in ArgValues :
       Configure("maxTimeMS", maxTimeMS(cursor, value), <<value>>)

BatchSizeCall ==
  /\ CanCall
  /\ \E value \in ArgValues :
       Configure("batchSize", batchSize(cursor, value), <<value>>)

\* ---- the stream ----------------------------------------------------------
\* cursor.stream(options), with or without a transform option
StreamCall ==
  /\ ~stream.made
  /\ \E transform \in BOOLEAN :
       stream' = [NoStream EXCEPT !.made = TRUE, !.transform = transform]
  /\ UNCHANGED <<mongoOptions, client, cursor, optSession, sessionSupport, ended, started, issued,
                 server, call, kills, closes, result, delivered, calls, sent>>

\* the stream has pushed the null that ends it
Ending == Len(stream.pushed) > 0 /\ stream.pushed[Len(stream.pushed)] = Null

\* the consumer asks for data and the Readable calls _read(): not while a
\* _read is waiting for its push, not after the end or destroy()
ReadCall ==
  /\ stream.made
  /\ ~stream.destroyed
  /\ ~Ending
  /\ stream.errors = <<>>
  /\ CanIterate
  /\ calls' = calls + 1
  /\ Commit(Run(next(Enter("read", 0))))
  /\ UNCHANGED <<mongoOptions, client, optSession, sessionSupport, server, kills, closes>>

\* the consumer has read up to the pushed null and the Readable emits END:
\* the once(END) listener of _read calls cursor.close() and emits FINISH
StreamEnd ==
  /\ stream.made
  /\ ~stream.destroyed
  /\ Ending
  /\ stream.ends = 0
  /\ stream' = [stream EXCEPT !.ends = @ + 1, !.endHooks = 0,
                              !.finished = @ + stream.endHooks]
  /\ IF stream.endHooks > 0
     THEN close
     ELSE UNCHANGED <<cursor, closes, issued, kills, sent>>
  /\ UNCHANGED <<mongoOptions, client, optSession, sessionSupport, ended, started, server, call,
                 result, delivered, calls>>

\* stream.destroy(): pause(), cursor.close(), super.destroy()
DestroyCall ==
  /\ stream.made
  /\ CanCall
  /\ calls' = calls + 1
  /\ close
  /\ stream' = [stream EXCEPT !.destroyed = TRUE]
  /\ UNCHANGED <<mongoOptions, client, optSession, sessionSupport, ended, started, server, call,
                 result, delivered>>

\* ---- MongoClient.withSession ---------------------------------------------
\* what the caller's callback does: it throws, or returns a promise that
\* resolves or rejects; and the values it throws or rejects with - an Error,
\* a message, or nothing (`Promise.reject()`, `throw undefined`)
Reasons == {Obj, Str("failed"), Undef}

\* cleanupHandler: `if (err)`
Failed(err) == Truthy(err)

\* cleanupHandler(err, result, opts): ends the session; an error is thrown
\* (inside the then-handler) or returned as Promise.reject(err), and either
\* way the promise of withSession rejects with it
cleanupHandler(w, session, behaviour, err) ==
  LET w1 == endSession(w, session)
      rejected == behaviour # "resolves" /\ Failed(err)
  IN [w1 EXCEPT !.call = NoCall,
                !.result = [NoResult EXCEPT
                              !.op = "withSession",
                              !.err = IF rejected THEN "rejected" ELSE "none",
                              !.args = <<Str(behaviour), err,
                                         IF rejected THEN err ELSE Undef>>]]

\* client.withSession(callback): startSession throws without session
\* support; the callback runs at once and throws, or returns a promise
WithSessionCall ==
  /\ CanIterate
  /\ calls' = calls + 1
  /\ IF ~sessionSupport
     THEN Commit([World EXCEPT
                    !.result = [NoResult EXCEPT
                                  !.op = "withSession", !.err = "thrown"]])
     ELSE LET session == ownSession(started + 1)
              w == [World EXCEPT !.started = @ + 1]
          IN \/ \E err \in Reasons :
                  Commit(cleanupHandler(w, session, "throws", err))
             \/ Commit([w EXCEPT !.call = [NoCall EXCEPT
                                            !.op = "withSession",
                                            !.pending = "callback",
                                            !.session = session]])
  /\ UNCHANGED <<mongoOptions, client, optSession, sessionSupport, server, kills, closes>>

\* the promise the callback returned settles
CallbackSettles ==
  /\ call.op = "withSession"
  /\ \E behaviour \in {"resolves", "rejects"}, err \in Reasons :
       Commit(cleanupHandler(World, call.session, behaviour,
                             IF behaviour = "rejects" THEN err ELSE Undef))
  /\ UNCHANGED <<mongoOptions, client, optSession, sessionSupport, server, kills, closes, calls>>

\* ---- MongoClient.db ------------------------------------------------------
\* Object.assign({}, this.s.options, options).returnNonCachedInstance
finalOptions(c, options) ==
  IF options.returnNonCachedInstance # Undef
  THEN options.returnNonCachedInstance
  ELSE c.options.returnNonCachedInstance

\* db(dbName, options): the name defaults to the one of the client options;
\* the cached Db is returned unless returnNonCachedInstance is true; else a
\* Db is constructed (which needs the topology) and put in the cache
db(c, dbName, options) ==
  LET name == IF dbName = "" /\ c.options.dbName # "" THEN c.options.dbName
              ELSE dbName
      flag == finalOptions(c, options)
      dbFromCache == c.dbCache[name]
      new == c.dbs + 1
  IN IF dbFromCache # NoDb /\ flag # Bool("true")
     THEN [c |-> c, err |-> "none", name |-> name, db |-> dbFromCache]
     ELSE IF ~c.topology
     THEN [c |-> c, err |-> "MongoClient must be connected", name |-> name,
           db |-> NoDb]
     ELSE [c |-> [c EXCEPT !.dbs = new, !.dbCache[name] = new],
           err |-> "none", name |-> name, db |-> new]

\* the options a caller passes to db()
DbOptions ==
  {[returnNonCachedInstance |-> flag] : flag \in {Undef, Bool("true")}}

\* client.db(dbName, options) is called and returns a Db or throws
DbCall ==
  /\ CanCall
  /\ calls' = calls + 1
  /\ \E dbName \in DbNames, options \in DbOptions :
       LET r == db(client, dbName, options)
       IN /\ client' = [r.c EXCEPT
                          !.returned = IF r.err = "none"
                                       THEN Append(@, [name |-> r.name,
                                                       options |-> options,
                                                       db |-> r.db])
                                       ELSE @]
          /\ result' = [NoResult EXCEPT !.op = "db", !.err = r.err,
                                        !.value = r.db]
  /\ UNCHANGED <<mongoOptions, cursor, optSession, sessionSupport, ended,
                 started, issued, server, call, kills, closes, delivered, sent,
                 stream>>

\* ---- the MongoOptions constructor ------------------------------------------
\* key.toLowerCase()
toLowerCase(key) ==
  CASE key = "appName" -> "appname"
    [] key = "authMechanism" -> "authmechanism"
    [] key = "dbName" -> "dbname"
    [] key = "socketTimeoutMS" -> "sockettimeoutms"
    [] key = "readPreference" -> "readpreference"
    [] OTHER -> key

\* a Map, in insertion order: a sequence of [key, value]
has(m, key) == \E i \in 1..Len(m) : m[i].key = key
get(m, key) == m[CHOOSE i \in 1..Len(m) : m[i].key = key].value
set(m, key, value) ==
  IF has(m, key)
  THEN [i \in 1..Len(m) |->
          IF m[i].key = key THEN [key |-> key, value |-> value] ELSE m[i]]
  ELSE Append(m, [key |-> key, value |-> value])
keys(m) == [i \in 1..Len(m) |-> m[i].key]

\* url.searchParams.getAll(key): the values of the parameters of that very
\* name, in order
RECURSIVE getAll(_, _)
getAll(params, key) ==
  IF params = <<>> THEN <<>>
  ELSE (IF Head(params).key = key THEN <<Head(params).value>> ELSE <<>>)
         \o getAll(Tail(params), key)

\* the loop over url.searchParams.keys(), which yields the name of every
\* parameter, a repeated name as often as it occurs
RECURSIVE urlOptions(_, _, _)
urlOptions(params, i, m) ==
  IF i > Len(params) THEN m
  ELSE LET key == params[i].key
           loweredKey == toLowerCase(key)
       IN urlOptions(params, i + 1,
                     IF has(m, loweredKey)
                     THEN set(m, loweredKey,
                              get(m, loweredKey) \o getAll(params, key))
                     ELSE set(m, loweredKey, getAll(params, key)))

\* new Map(Object.entries(options).map(([k, v]) => [k.toLowerCase(), v]))
RECURSIVE objectOptions(_, _, _)
objectOptions(entries, i, m) ==
  IF i > Len(entries) THEN m
  ELSE objectOptions(entries, i + 1,
                     set(m, toLowerCase(entries[i].key), entries[i].value))

\* const defaultOptions: its keys are not lowered
defaultOptions ==
  <<[key |-> "authMechanism", value |-> Str("DEFAULT")],
    [key |-> "dbName", value |-> Str("test")],
    [key |-> "socketTimeoutMS", value |-> Num("0")],
    [key |-> "readPreference", value |-> ReadPref("primary")]>>

\* new Set([...]): the elements in order, each once
RECURSIVE allKeys(_, _)
allKeys(ks, seen) ==
  IF ks = <<>> THEN seen
  ELSE allKeys(Tail(ks),
               IF \E i \in 1..Len(seen) : seen[i] = Head(ks)
               THEN seen ELSE Append(seen, Head(ks)))

\* allOptions: for every key the candidate values - those of the uri, the
\* one of the options object, the default
allOptions(u, o) ==
  LET ks == allKeys(keys(u) \o keys(o) \o keys(defaultOptions), <<>>)
  IN [i \in 1..Len(ks) |->
        [key |-> ks[i],
         value |-> (IF has(u, ks[i]) THEN get(u, ks[i]) ELSE <<>>)
                     \o (IF has(o, ks[i]) THEN <<get(o, ks[i])>> ELSE <<>>)
                     \o (IF has(defaultOptions, ks[i])
                         THEN <<get(defaultOptions, ks[i])>> ELSE <<>>)]]

\* how the parameter pattern `[value]` of a transform was compiled: as
\* iteration of the argument, or as argument[0]
Builds == {"iterates", "indexes"}

\* the transforms are called with inputValue = { value, source }, an object
\* and not the array of candidates: destructuring `[value]` from it throws
\* where it iterates, and yields undefined where it indexes
destructure(inputValue, build) ==
  IF build = "iterates"
  THEN [err |-> "TypeError: inputValue is not iterable", value |-> Undef]
  ELSE [err |-> "none", value |-> Undef]

\* String(value)
String(value) == IF value = Undef THEN "undefined" ELSE value.v

VALID_AUTH_MECHANISMS ==
  {"DEFAULT", "PLAIN", "GSSAPI", "MONGODB-CR", "MONGODB-X509", "MONGODB-AWS",
   "SCRAM-SHA-1", "SCRAM-SHA-256"}

\* getDuration(value): a number, or a string of digits; else a TypeError
getDuration(value) ==
  IF typeof(value) = "number" \/ String(value) \in {"0", "10"}
  THEN [err |-> "none", value |-> Num(String(value))]
  ELSE [err |-> "Expected stringified Uint duration value", value |-> Undef]

\* transforms[optionName], applied to `this` and the destructured value
transforms(optionName, this, value) ==
  CASE optionName = "appname" ->
         Ok([this EXCEPT !["appName"] =
               IF Truthy(value) THEN Str(String(value)) ELSE Undef])
    [] optionName = "authmechanism" ->
         IF String(value) \notin VALID_AUTH_MECHANISMS
         THEN Throw(this, "Option 'authMechanism' must be one of")
         ELSE Ok([this EXCEPT !["authMechanism"] = Str(String(value))])
    [] optionName = "dbname" -> Ok(this)
    [] optionName = "sockettimeoutms" ->
         IF getDuration(value).err # "none"
         THEN Throw(this, getDuration(value).err)
         ELSE Ok([this EXCEPT !["socketTimeoutMS"] = getDuration(value).value])
    [] optionName = "readpreference" ->
         IF value.type = "ReadPreference"
         THEN Ok([this EXCEPT !["readPreference"] = value])
         ELSE IF typeof(value) = "string"
         THEN Ok([this EXCEPT !["readPreference"] = fromString(value)])
         ELSE IF typeof(value) = "object"
         THEN Ok([this EXCEPT !["readPreference"] = ReadPref("primary")])
         ELSE Throw(this, "Option readPreference must be a string")
    [] OTHER -> Ok(this)

\* the loop over allOptions.entries(): each transform is called with the
\* entry's { value, source }; the first one that throws ends the constructor
RECURSIVE applyAll(_, _, _, _)
applyAll(entries, i, this, build) ==
  IF i > Len(entries) THEN Ok(this)
  ELSE LET d == destructure(entries[i], build)
           r == transforms(toLowerCase(entries[i].key), this, d.value)
       IN IF d.err # "none" THEN Throw(this, d.err)
          ELSE IF r.err # "none" THEN r
          ELSE applyAll(entries, i + 1, r.c, build)

\* MongoOptions constructor
MongoOptions(arguments, build) ==
  LET u == urlOptions(arguments.uri, 1, <<>>)
      o == objectOptions(arguments.options, 1, <<>>)
      r == applyAll(allOptions(u, o), 1, arguments.this, build)
  IN [arguments EXCEPT !.made = TRUE, !.err = r.err, !.this = r.c]

\* new MongoOptions(uri, options)
NewMongoOptions ==
  /\ ~mongoOptions.made
  /\ \E build \in Builds : mongoOptions' = MongoOptions(mongoOptions, build)
  /\ UNCHANGED <<client, cursor, optSession, sessionSupport, ended, started,
                 issued, server, call, kills, closes, result, delivered, calls,
                 sent, stream>>

Next ==
  \/ NextCall
  \/ HasNextCall
  \/ ToArrayCall
  \/ ForEachCall
  \/ CloseCall
  \/ InitResponse
  \/ GetMoreResponse
  \/ KillResponse

Spec == Init /\ [][Next]_vars

\* the cursor used with map(): iteration of a mapped cursor that is not closed
NextMap ==
  \/ MapCall
  \/ NextCall
  \/ HasNextCall
  \/ ToArrayCall
  \/ ForEachCall
  \/ InitResponse
  \/ GetMoreResponse

SpecMap == Init /\ [][NextMap]_vars

\* the cursor iterated with next(), hasNext() and toArray() only
NextIter ==
  \/ NextCall
  \/ HasNextCall
  \/ ToArrayCall
  \/ InitResponse
  \/ GetMoreResponse

SpecIter == Init /\ [][NextIter]_vars

\* the mapped cursor iterated with next(), with hasNext() calls in between
NextPeek ==
  \/ MapCall
  \/ NextCall
  \/ HasNextCall
  \/ InitResponse
  \/ GetMoreResponse

SpecPeek == Init /\ [][NextPeek]_vars

\* the cursor drained with toArray(), with every command the cursor sends
\* answered in the end (the server answers each command it receives)
NextDrain ==
  \/ ToArrayCall
  \/ InitResponse
  \/ GetMoreResponse

SpecDrain ==
  Init /\ [][NextDrain]_vars /\ WF_vars(InitResponse) /\ WF_vars(GetMoreResponse)

\* the cursor of a deployment with two servers an operation can select
InitPinned == InitIn(Replicas)

NextPinned ==
  \/ NextCall
  \/ ToArrayCall
  \/ CloseCall
  \/ InitResponse
  \/ GetMoreResponse
  \/ KillResponse

SpecPinned == InitPinned /\ [][NextPinned]_vars

\* the cursor consumed through a stream, by a client that may be closed
\* while the stream is read
InitStream == InitOf(Topology, ShutdownFaults)

NextStream ==
  \/ StreamCall
  \/ ReadCall
  \/ StreamEnd
  \/ DestroyCall
  \/ InitResponse
  \/ GetMoreResponse
  \/ KillResponse

SpecStream == InitStream /\ [][NextStream]_vars

\* a find cursor being configured, made with or without { tailable: true }
InitConfig == InitWith(Topology, NetworkFaults, {NoFindOptions, TailableOptions})

NextConfig ==
  \/ SortCall
  \/ LimitCall
  \/ SkipCall
  \/ AddCursorFlagCall
  \/ SetReadPreferenceCall
  \/ MaxTimeMSCall
  \/ BatchSizeCall

SpecConfig == InitConfig /\ [][NextConfig]_vars

\* a client whose withSession is called
NextClient ==
  \/ WithSessionCall
  \/ CallbackSettles

SpecClient == Init /\ [][NextClient]_vars

\* a client, connected or not, made with or without a default database name
\* and returnNonCachedInstance, whose db() is called
ClientOptions ==
  {[dbName |-> name, returnNonCachedInstance |-> flag] :
     name \in {"", "a"}, flag \in {Undef, Bool("true")}}

InitDb ==
  InitAll(Topology, NetworkFaults, {NoFindOptions},
          {MongoClient(options, topology) :
             options \in ClientOptions, topology \in BOOLEAN},
          {NoArguments})

NextDb == DbCall

SpecDb == InitDb /\ [][NextDb]_vars

\* the uris and options objects MongoOptions is constructed from: query
\* parameters named in either case, an options object with or without the
\* same options
QueryParams ==
  {[key |-> key, value |-> value] :
     key \in {"appName", "appname", "authMechanism"},
     value \in {Str("x"), Str("PLAIN")}}

Queries == UNION {[1..n -> QueryParams] : n \in 0..MaxParams}

OptionObjects ==
  {<<>>,
   <<[key |-> "appName", value |-> Str("hello")]>>,
   <<[key |-> "authMechanism", value |-> Str("GSSAPI")]>>,
   <<[key |-> "appName", value |-> Str("hello")],
     [key |-> "authMechanism", value |-> Str("GSSAPI")]>>}

InitOptions ==
  InitAll(Topology, NetworkFaults, {NoFindOptions},
          {MongoClient(NoClientOptions, TRUE)},
          {Arguments(uri, options) : uri \in Queries, options \in OptionObjects})

NextOptions == NewMongoOptions

SpecOptions == InitOptions /\ [][NextOptions]_vars

TypeOK ==
  /\ cursor.closed \in BOOLEAN
  /\ server.served \in 0..MaxDocs
  /\ calls \in 0..MaxCalls
  /\ call.op \in {"none", "next", "hasNext", "toArray", "forEach", "read",
                  "withSession"}
  /\ call.pending \in {"none", "init", "getMore", "callback"}

\* ---- properties -----------------------------------------------------------
\* this step delivers the callback of the iteration call `op`
Completes(op) ==
  /\ call'.op = "none"
  /\ result'.op = op
  /\ \/ call.op = op
     \/ call.op = "none" /\ calls' = calls + 1 /\ closes' = closes

\* this step is a close() call
Closes == closes'.calls = closes.calls + 1

Last(s) == s[Len(s)]

\* C1: endSession is invoked on a session the cursor created exactly once in
\* total - never a second time, whatever next/hasNext/toArray/forEach/close
\* calls follow the first invocation.
C1_OwnedSessionEndedOnce ==
  \A s \in Sessions : OwnedByCursor(s) => ended[s] <= 1

\* C2: endSession is only ever invoked on a session whose owner is the
\* cursor; the caller-supplied session is never ended.
C2_BorrowedSessionNeverEnded ==
  \A s \in Sessions : ended[s] > 0 => s.owner = "cursor"

\* C2 witness: a cursor on the caller's session that was initialized, was
\* closed with a killCursors that has been answered, and ran into a failing
\* getMore.
C2_Witness ==
  /\ cursor.kSession = CallerSession
  /\ issued.kill > 0
  /\ kills = <<>>
  /\ result.err = "network"
  /\ issued.getMore > 0

\* C3: a close() call made on a cursor that is already closed issues no
\* killCursors (the kill is sent at most once).
C3_SecondCloseIssuesNoKill ==
  [][cursor.closed /\ Closes => issued'.kill = issued.kill]_vars

\* C4: once closed is true, an iteration call that starts issues neither the
\* initial command nor a getMore.
C4_NoFetchAfterClose ==
  [][cursor.closed /\ call.op = "none"
       => issued'.init = issued.init /\ issued'.getMore = issued.getMore]_vars

\* a next() call made after a getMore response carried the zero id, with the
\* buffer drained
NextAfterZeroGetMore ==
  /\ server.zeroIn = "getMore"
  /\ Len(cursor.kDocuments) = 0
  /\ call.op = "none"
  /\ Completes("next") \/ call'.op = "next"

\* C5 (as stated): after a getMore response carried a zero id, every next()
\* on the drained cursor returns end-of-results and issues no network call.
C5_NextAfterZeroReturnsEnd ==
  [][NextAfterZeroGetMore
       => /\ Completes("next")
          /\ result'.err = "none"
          /\ result'.value = Null
          /\ issued' = issued]_vars

\* C5 (amended): after a getMore response carried a zero id, every next() on
\* the drained cursor issues no network call; it returns end-of-results
\* (null), unless close() was called after that response - then the id is
\* the Long.ZERO singleton and next() fails with 'Cursor is exhausted'.
C5_NextAfterZeroNoNetwork ==
  [][NextAfterZeroGetMore
       => /\ Completes("next")
          /\ issued' = issued
          /\ IF cursor.kId = LongZERO
             THEN result'.err = "Cursor is exhausted"
             ELSE result'.err = "none" /\ result'.value = Null]_vars

\* C5 witness: next() has returned null after the zero getMore response
C5_Witness ==
  /\ server.zeroIn = "getMore"
  /\ result.op = "next"
  /\ result.err = "none"
  /\ result.value = Null
  /\ call.op = "none"

\* C6: a toArray() that completes successfully has drained the cursor: the
\* id is zero, the buffer is empty and the array holds every buffered and
\* every fetched document.
C6_ToArrayDrains ==
  [][Completes("toArray") /\ result'.err = "none"
       => /\ cursor'.kId # IdUndefined
          /\ isZero(cursor'.kId)
          /\ cursor'.kDocuments = <<>>
          /\ result'.docs = result'.expect]_vars

\* C7: toArray() on a fresh cursor whose initial response carries id zero and
\* a non-empty first batch returns exactly that batch, in order, and no
\* getMore is ever issued.
C7_ZeroIdFirstBatch ==
  (/\ result.op = "toArray"
   /\ result.fresh
   /\ server.zeroIn = "init"
   /\ result.expect # <<>>)
    => /\ result.err = "none"
       /\ result.docs = result.expect
       /\ result.docs = Docs(1, server.served)
       /\ issued.getMore = 0

\* C7 witness: the scenario's three documents came back from toArray()
C7_Witness ==
  /\ result.op = "toArray"
  /\ result.fresh
  /\ server.zeroIn = "init"
  /\ result.docs = <<1, 2, 3>>

\* C8: when the getMore of a next() call is answered with id zero and an
\* empty batch, the call yields null, and the owned session has been ended
\* by then.
C8_ZeroEmptyGetMoreYieldsNull ==
  [][(/\ call.op = "next"
      /\ call.pending = "getMore"
      /\ Len(cursor.kDocuments) = 0
      /\ server.zeroIn = "none"
      /\ server'.zeroIn = "getMore"
      /\ server'.served = server.served)
       => /\ Completes("next")
          /\ result'.err = "none"
          /\ result'.value = Null
          /\ OwnedByCursor(cursor.kSession) => ended'[cursor.kSession] > 0]_vars

\* C9: close() on a cursor whose id is absent sends nothing to the server;
\* it sets closed (and the id to Long.ZERO) and calls back at once.
C9_CloseBeforeIteration ==
  [][cursor.kId = IdUndefined /\ Closes
       => /\ issued' = issued
          /\ kills' = kills
          /\ ended' = ended
          /\ cursor' = [cursor EXCEPT !.closed = TRUE, !.kId = LongZERO]
          /\ closes'.callbacks = closes.callbacks + 1]_vars

\* C9 witness: a cursor closed before any command was ever sent
C9_Witness ==
  /\ cursor.closed
  /\ issued = [init |-> 0, getMore |-> 0, kill |-> 0]
  /\ closes.callbacks = closes.calls
  /\ cursor.kId = LongZERO

\* C10: when the visitor of forEach returns false the cursor is not closed,
\* no killCursors is sent, and the buffer holds exactly the fetched documents
\* after the last visited one.
C10_ForEachStopKeepsBuffer ==
  [][Completes("forEach") /\ result'.stopped
       => /\ cursor'.closed = cursor.closed
          /\ issued'.kill = issued.kill
          /\ cursor'.kDocuments = Docs(Last(delivered') + 1, server'.served)]_vars

\* g(f(d)): what a document is mapped to after cursor.map(f).map(g)
GF(doc) == ApplyOne("g", ApplyOne("f", doc))

\* C11: after cursor.map(f).map(g), every document handed to the caller - by
\* next(), by toArray() or to the visitor of forEach() - is g(f(d)) of a raw
\* document d of the server.
C11_MapComposes ==
  [][(/\ cursor.kTransform = <<"f", "g">>
      /\ call.op # "none" => call.transform = <<"f", "g">>)
       => \A i \in (Len(delivered) + 1)..Len(delivered') :
            \E d \in 1..MaxDocs : delivered'[i] = GF(d)]_vars

\* this hasNext() went to the server and the response carried documents
HasNextFetched == call.op = "hasNext" /\ result'.expect # <<>>

\* the batch with its first document as next() returned it (mapped)
PutBack(batch) ==
  <<Transform(cursor.kTransform, Head(batch))>> \o Tail(batch)

Conserved ==
  delivered \o call.docs \o cursor.kDocuments = Docs(1, server.served)

\* a successful toArray() returns exactly the documents not yet delivered
ToArrayReturnsTheRest ==
  Completes("toArray") /\ result'.err = "none"
    => result'.docs = Docs(Len(delivered) + 1, server'.served)

\* this step is a toArray() ending with an error
ToArrayFails == Completes("toArray") /\ result'.err # "none"

ZeroId(c) == c.kId # IdUndefined /\ isZero(c.kId)

\* C14 (as stated): a getMore is issued only while the id is present and
\* non-zero; once the id is zero it stays zero and no getMore is issued.
C14_ZeroIdIsFinal ==
  [][/\ issued'.getMore > issued.getMore
          => cursor'.kId # IdUndefined /\ ~isZero(cursor'.kId)
     /\ ZeroId(cursor)
          => ZeroId(cursor') /\ issued'.getMore = issued.getMore]_vars

\* C15: the pinned server is set by the successful initialization and never
\* changes afterwards; every getMore and killCursors goes to that server with
\* the namespace recorded at initialization.
C15_PinnedServerFixed ==
  [][/\ cursor'.kServer # cursor.kServer
          => call.pending = "init" /\ cursor'.kId # IdUndefined
     /\ cursor.kServer # "undefined"
          => /\ cursor'.kServer = cursor.kServer
             /\ cursor'.kNamespace = cursor.kNamespace
     /\ \A m \in sent' \ sent :
          /\ cursor.kServer # "undefined" \/ call.pending = "init"
          /\ m.server = cursor'.kServer /\ m.server \in server.pool
          /\ m.ns = cursor'.kNamespace /\ m.ns # "undefined"]_vars

\* C15 witness: a getMore and a killCursors both went to the server that the
\* second initialization attempt selected
C15_Witness ==
  /\ issued.init = 2
  /\ cursor.kServer = "other"
  /\ \E g, k \in sent :
       /\ g.cmd = "getMore" /\ g.server = "other"
       /\ k.cmd = "killCursors" /\ k.server = "other"

\* C16: close() sets closed synchronously, before any killCursors or
\* endSession completes, and closed never returns to false: in every state
\* after the first close() call closed is true.
C16_ClosedAfterClose ==
  [][/\ Closes => cursor'.closed
     /\ cursor.closed => cursor'.closed
     /\ closes'.calls > 0 => cursor'.closed]_vars

\* C16 witness: close() has been called, its killCursors is still in flight
\* and its callback has not fired, and closed is already true
C16_Witness ==
  /\ closes.calls = 1
  /\ closes.callbacks = 0
  /\ Len(kills) = 1
  /\ cursor.closed

\* the cursor holds a live non-zero id and a pinned server
LiveAndPinned ==
  /\ cursor.kId # IdUndefined
  /\ cursor.kId.v # 0
  /\ cursor.kServer # "undefined"

\* this step is the completion of the killCursors of a close() made with
\* session s
KillCompletes(s) ==
  \E i \in 1..Len(kills) : kills[i] = s /\ kills' = RemoveAt(kills, i)

\* C17: close() on a cursor with a live id and a pinned server issues
\* killCursors for that id against the pinned server; the owned session is
\* ended only when the kill has completed and the caller's callback fires
\* only after both; a borrowed session is left open.
C17_CloseKillsThenEndsSession ==
  [][/\ Closes /\ LiveAndPinned
          => /\ issued'.kill = issued.kill + 1
             /\ [cmd |-> "killCursors", server |-> cursor.kServer,
                 ns |-> cursor.kNamespace, id |-> cursor.kId.v] \in sent'
             /\ kills' = Append(kills, cursor.kSession)
             /\ ended' = ended
             /\ closes'.callbacks = closes.callbacks
     /\ \A s \in Sessions \cup {NoSession} :
          KillCompletes(s)
            => /\ closes'.callbacks = closes.callbacks + 1
               /\ \A t \in Sessions :
                    ended'[t] = IF t = s /\ t.owner = "cursor"
                                THEN Bump(ended[t]) ELSE ended[t]]_vars

\* C17 witness: close() on a live cursor with a session of its own has sent
\* the kill, the kill has completed, the session is ended and the callback
\* has fired
C17_Witness ==
  /\ closes.calls = 1
  /\ closes.callbacks = 1
  /\ issued.kill = 1
  /\ kills = <<>>
  /\ cursor.kId.v = LiveId
  /\ cursor.kSession.owner = "cursor"
  /\ ended[cursor.kSession] = 1

\* C18 (as stated): when the killCursors issued by close() fails, the failure
\* is reported to the caller of close(), and closed is true regardless.
C18_KillFailureReported ==
  [][closes'.failed # closes.failed
       => closes'.reported = closes.reported + 1 /\ cursor'.closed]_vars

\* this step delivers an error of the initial command to the caller
InitFails ==
  /\ call.pending = "init"
  /\ call'.op = "none"
  /\ result'.err # "none"

\* C19: when initialization fails and the session was created for this call,
\* that session is ended before the error reaches the caller, and the caller
\* receives the initialization error itself; a caller-supplied session is not
\* ended.
C19_InitFailureEndsOwnSession ==
  [][InitFails
       => /\ result'.err = "network"
          /\ call.session.owner = "cursor"
               => ended[call.session] = 0 /\ ended'[call.session] = 1
          /\ \A s \in Sessions : s # call.session => ended'[s] = ended[s]
          /\ call.session.owner # "cursor" => ended' = ended]_vars

\* C19 witness: the first initialization failed, the caller has the error and
\* the session started for the call is ended
C19_Witness ==
  /\ result.err = "network"
  /\ call.op = "none"
  /\ issued = [init |-> 1, getMore |-> 0, kill |-> 0]
  /\ cursor.kId = IdUndefined
  /\ cursor.kSession = NoSession
  /\ ended[startSession(1)] = 1

\* C20 (as stated): an owned session is ended only when the cursor is
\* exhausted or closed: whenever endSession is invoked after a successful
\* initialization, the cursor id is zero or closed is true.
C20_SessionEndedOnlyWhenDone ==
  [][\A s \in Sessions :
       s.owner = "cursor" /\ ended'[s] # ended[s] /\ cursor'.kId # IdUndefined
         => cursor'.kId.v = 0 \/ cursor'.closed]_vars

\* this step delivers the error of a failed getMore to the caller; the buffer
\* was empty when the getMore was sent
GetMoreFails ==
  /\ call.pending = "getMore"
  /\ call'.op = "none"
  /\ result'.err = "network"

\* isClosed(): the id is present and zero
isClosed(c) == c.kId # IdUndefined /\ (isZero(c.kId) \/ c.kId = LongZERO)

\* C21 (as stated): an error of a getMore with no buffered documents closes
\* the cursor: after the call returns the error the cursor is closed, and a
\* later call issues no further getMore.
C21_GetMoreErrorCloses ==
  [][/\ GetMoreFails => cursor'.closed \/ isClosed(cursor')
     /\ (call.op = "none" /\ result.err = "network" /\ cursor.kId # IdUndefined)
          => issued'.getMore = issued.getMore]_vars

\* the network operations of the cursor that are in flight: the initial
\* command or getMore of the iteration call, and the killCursors of close()
InFlight == (IF call.pending = "none" THEN 0 ELSE 1) + Len(kills)

Destroys == calls' = calls + 1 /\ stream'.destroyed

\* C24 (as stated): the cursor's close() is triggered exactly once over the
\* stream's life: destroying the stream closes the cursor even if nothing was
\* pulled, and after the natural end of the results the destruction does not
\* close it a second time.
C24_StreamClosesCursorOnce ==
  [][Destroys /\ ~stream.destroyed => closes'.calls = 1]_vars

\* C25 (as stated): each _read calls next() once and forwards its outcome: a
\* document is pushed downstream (through the stream's transform option when
\* one is set), the end of the results terminates the stream and triggers
\* the cursor's close, and an error is emitted as a stream error.
C25_ReadForwardsOutcome ==
  [][/\ Completes("read")
          => IF result'.err # "none"
             THEN /\ stream'.errors = Append(stream.errors, result'.err)
                  /\ stream'.pushed = stream.pushed
             ELSE /\ stream'.errors = stream.errors
                  /\ IF IsDoc(result'.value)
                     THEN stream'.pushed =
                            Append(stream.pushed,
                                   IF stream.transform
                                   THEN result'.value + 100
                                   ELSE result'.value)
                     ELSE /\ stream'.pushed = Append(stream.pushed, Null)
                          /\ stream'.endHooks = 1
     /\ stream'.ends > stream.ends /\ stream.errors = stream'.errors
          => Closes]_vars

\* C26 (as stated): when next() fails during streaming with the error of a
\* transport that was deliberately closed, the stream ends gracefully and
\* emits no error event; every other error is emitted as a stream error.
C26_TransportClosedEndsStream ==
  [][Completes("read") /\ result'.err # "none"
       => IF result'.err = "server is closed"
          THEN /\ stream'.errors = stream.errors
               /\ stream'.pushed = Append(stream.pushed, Null)
          ELSE stream'.errors = Append(stream.errors, result'.err)]_vars

\* this step is a call of the configuration method `op`
Configures(op) == calls' = calls + 1 /\ result'.op = op

\* tailable mode is active: set through the constructor options or through
\* addCursorFlag('tailable', true)
TailableActive ==
  \/ cursor.options["tailable"] = Bool("true")
  \/ cursor.kOptions["tailable"] = Bool("true")

\* C27 (as stated): on a find cursor sort(), limit() and skip() fail and
\* leave the options unchanged whenever tailable mode is active, whether set
\* through the constructor options or through addCursorFlag.
C27_TailableRejectsSortLimitSkip ==
  [][(Configures("sort") \/ Configures("limit") \/ Configures("skip"))
       /\ TailableActive
       => result'.err # "none" /\ cursor' = cursor]_vars

\* the arguments of a call of `op` are of the wrong type or shape
WrongArgs(op, args) ==
  CASE op = "addCursorFlag" ->
         args[1].v \notin CURSOR_FLAGS \/ args[2].type # "boolean"
    [] op = "setReadPreference" ->
         args[1].type \notin {"ReadPreference", "string"}
    [] OTHER -> args[1].type # "number"

\* C28: addCursorFlag, setReadPreference, batchSize and maxTimeMS reject a
\* value of the wrong type or shape by throwing synchronously, issue no
\* network operation and leave the cursor's configuration as it was.
C28_SettersRejectWrongValues ==
  [][\A op \in {"addCursorFlag", "setReadPreference", "batchSize", "maxTimeMS"} :
       Configures(op) /\ WrongArgs(op, result'.args)
         => /\ result'.err # "none"
            /\ cursor' = cursor
            /\ issued' = issued
            /\ sent' = sent
            /\ call' = call]_vars

\* C28 witness: batchSize was set to a number and a later batchSize call
\* with a string threw; the number is still there
C28_Witness ==
  /\ result.op = "batchSize"
  /\ result.args = <<Str("secondary")>>
  /\ result.err # "none"
  /\ cursor.kOptions["batchSize"] = Num("10")

\* the initial commands and getMores issued so far
Fetches(i) == i.init + i.getMore

\* C29: a single next() or hasNext() call issues at most one network command
\* (the initial command or one getMore); when that command fails the error
\* is propagated to the caller and the command is not reissued within the
\* same call.
C29_OneCommandPerCall ==
  [][/\ (/\ call.op = "none"
         /\ calls' = calls + 1
         /\ closes' = closes
         /\ \/ call'.op \in {"next", "hasNext"}
            \/ call'.op = "none" /\ result'.op \in {"next", "hasNext"})
          => IF call'.op = "none"
             THEN issued' = issued
             ELSE Fetches(issued') = Fetches(issued) + 1
     /\ (call.op \in {"next", "hasNext"} /\ call' # call)
          => /\ Completes(call.op)
             /\ issued' = issued
             /\ server'.fault # "none" => result'.err = server'.fault]_vars

\* C29 witness: a hasNext() call sent one getMore, the getMore failed and
\* the call ended with that error
C29_Witness ==
  /\ result.op = "hasNext"
  /\ result.err = "network"
  /\ server.fault = "network"
  /\ issued.getMore = 1
  /\ call.op = "none"

\* this step settles a withSession call made with the session s
WithSessionEnds(s) ==
  /\ result'.op = "withSession"
  /\ result'.err # "thrown"
  /\ call'.op = "none"
  /\ \/ call.op = "withSession" /\ s = call.session
     \/ call.op = "none" /\ calls' = calls + 1 /\ s = ownSession(started')

\* C30 (as stated): withSession ends the session it created exactly once for
\* every outcome of the callback (its promise resolves, its promise rejects,
\* it throws), and a failure of the callback reaches the caller as a
\* rejection carrying the same error.
C30_WithSessionEndsSession ==
  [][\A s \in Sessions :
       WithSessionEnds(s)
         => /\ ended[s] = 0 /\ ended'[s] = 1
            /\ result'.args[1] \in {Str("throws"), Str("rejects")}
                 => /\ result'.err = "rejected"
                    /\ result'.args[3] = result'.args[2]
            /\ result'.args[1] = Str("resolves") => result'.err = "none"]_vars

\* C31 (as stated): for any sequence of db() calls, two calls with the same
\* database name that do not pass returnNonCachedInstance return the same Db
\* instance.
C31_SameNameSameDb ==
  \A i, j \in 1..Len(client.returned) :
    (/\ client.returned[i].name = client.returned[j].name
     /\ client.returned[i].options.returnNonCachedInstance = Undef
     /\ client.returned[j].options.returnNonCachedInstance = Undef)
      => client.returned[i].db = client.returned[j].db

\* C32 (as stated): the cursor's 'close' event is emitted exactly once per
\* cursor, at the transition to closed, however many times close() is called
\* and whether the close is explicit, by the stream's end or by its
\* destruction.
C32_CloseEmittedOnce ==
  [][closes'.emitted # closes.emitted
       => closes.emitted = 0 /\ closes'.emitted = 1]_vars

\* a getMore would be attempted and there is no server to send it to
GetMoreWithoutServer ==
  /\ cursor.kId # IdUndefined
  /\ cursor.kId.v # 0
  /\ cursor.kNamespace # "undefined"
  /\ cursor.kDocuments = <<>>
  /\ cursor.kServer = "undefined"

\* C33: the state in which a getMore would be attempted without a pinned
\* server (id present and non-zero, namespace set, buffer empty, server
\* absent) is unreachable by any sequence of public operations, and the error
\* 'unable to iterate cursor without pinned server' is never returned.
C33_NeverWithoutPinnedServer ==
  /\ ~GetMoreWithoutServer
  /\ result.err # "no pinned server"
  /\ call.pending = "getMore" => cursor.kServer # "undefined"

\* C33 witness: the buffer is empty, the id is live, and a next() call is
\* waiting for the second getMore it sent to the pinned server
C33_Witness ==
  /\ call.op = "next"
  /\ call.pending = "getMore"
  /\ issued.getMore = 2
  /\ cursor.kDocuments = <<>>
  /\ cursor.kId.v = LiveId
  /\ cursor.kNamespace = "ns"
  /\ cursor.kServer = "server"

\* C34 (as stated): no getMore or killCursors is issued carrying a session
\* that the cursor itself has already ended: after endSession has been
\* invoked on the owned session, no later network operation of the cursor
\* uses that session.
C34_NoCommandOnEndedSession ==
  [][(issued'.getMore > issued.getMore \/ issued'.kill > issued.kill)
       /\ cursor'.kSession.owner = "cursor"
       => ended'[cursor'.kSession] = 0]_vars

\* this step is the successful answer to an initial command during which
\* close() was called
InitializedAfterClose ==
  /\ call.pending = "init"
  /\ closes.calls > 0
  /\ closes.callbacks = closes.calls
  /\ server' # server
  /\ server'.fault = "none"

\* C35 (as stated): when close() is called while the initial command is in
\* flight, then once close and the initialization have both completed no
\* server-side cursor is left alive without a kill: the cursor id is zero or
\* a killCursors has been issued for the id the initialization returned.
C35_CloseDuringInitKills ==
  [][InitializedAfterClose
       => \/ cursor'.kId.v = 0
          \/ \E m \in sent' : m.cmd = "killCursors" /\ m.id = cursor'.kId.v]_vars

\* C36 (as stated): once close() has completed on any cursor (uninitialized,
\* active or exhausted), isClosed() returns true: the cursor id is zero when
\* closed is true and the close is no longer in progress.
C36_IsClosedAfterClose ==
  [][closes'.callbacks > closes.callbacks
       => cursor'.closed /\ isClosed(cursor')]_vars

\* C37 (as stated): interleaving hasNext() calls does not change what the
\* caller receives: over next() and hasNext() calls the k-th document
\* next() returns is the server's k-th document with the cursor's transform
\* applied exactly once, whether or not hasNext() was called in between.
C37_HasNextTransparent ==
  [][(/\ Completes("next")
      /\ cursor'.kTransform = cursor.kTransform
      /\ result'.err = "none"
      /\ IsDoc(result'.value))
       => result'.value = Transform(cursor.kTransform, Len(delivered) + 1)]_vars

\* the session next() passes to _initialize on a cursor without one
ImplicitSession ==
  IF optSession # NoSession THEN optSession
  ELSE IF sessionSupport THEN startSession(started + 1)
  ELSE NoSession

\* this step is a next() call on a cursor whose last initialization failed
NextAfterInitFailure ==
  /\ call.op = "none"
  /\ cursor.kId = IdUndefined
  /\ issued.init > 0
  /\ call'.op = "next"

C39_ToArrayCompletes ==
  /\ (call.op = "toArray") ~> (call.op = "none" /\ result.op = "toArray")
  /\ [][call.op = "toArray" /\ call'.op # "toArray"
          => Completes("toArray")]_vars

\* C39 witness: a toArray() on a fresh cursor got documents from the initial
\* command and from a getMore, and completed when the second getMore failed
C39_Witness ==
  /\ result.op = "toArray"
  /\ result.fresh
  /\ result.err = "network"
  /\ issued.getMore = 2
  /\ server.served >= 2
  /\ call.op = "none"

\* the candidate values of an option in precedence order: the values of the
\* uri's parameters of that name in any case, in order of appearance, then
\* the value of the options object, then the default
RECURSIVE Named(_, _)
Named(entries, name) ==
  IF entries = <<>> THEN <<>>
  ELSE (IF toLowerCase(Head(entries).key) = toLowerCase(name)
        THEN <<Head(entries).value>> ELSE <<>>) \o Named(Tail(entries), name)

Candidates(name) ==
  Named(mongoOptions.uri, name) \o Named(mongoOptions.options, name)
    \o Named(defaultOptions, name)

\* C40 (as stated): MongoOptions resolves each option from its candidate
\* values in precedence order - uri values (names compared
\* case-insensitively, in order of appearance), then the options object,
\* then the default; a single-valued option takes the first candidate.
C40_FirstCandidateWins ==
  mongoOptions.made
    => \A name \in {"appName", "authMechanism"} :
         Candidates(name) # <<>>
           => /\ mongoOptions.err = "none"
              /\ mongoOptions.this[name] = Head(Candidates(name))

====
